---------------------------- MODULE Spec2Model ----------------------------
(***************************************************************************)
(* A model of the PL/SQL Sphinx domain (sphinxcontrib/plsqldomain.py):     *)
(* the signature grammar plsql_sig_re, PlSqlObject.handle_signature,       *)
(* PlSqlObject.add_target_and_index, the package context kept in           *)
(* env.temp_data by PlSqlPackage.before_content / after_content, the       *)
(* domain's object index with clear_doc / resolve_xref, and the type       *)
(* annotation rendering of PlSqlTypedField.make_field.                     *)
(*                                                                         *)
(* Text is modelled as a sequence of characters, so that the regular       *)
(* expression, str.split and str.strip are computed character by           *)
(* character.  A character up to U+00FF is the one-character string of     *)
(* itself (the line break, tab, form feed and carriage return written with *)
(* their escapes); a character beyond U+00FF, which a string of this       *)
(* language cannot hold, is the string of its code point, "U+0416".        *)
(***************************************************************************)
EXTENDS Naturals, Sequences, FiniteSets, TLC

(***************************************************************************)
(* Characters and the character classes the code uses.                     *)
(***************************************************************************)

\* Python's None (an unmatched group, a missing dictionary value).
None == <<"None">>

\* The ASCII characters the word class matches.
AsciiWordChars ==
    {"a","b","c","d","e","f","g","h","i","j","k","l","m","n","o","p","q",
     "r","s","t","u","v","w","x","y","z",
     "A","B","C","D","E","F","G","H","I","J","K","L","M","N","O","P","Q",
     "R","S","T","U","V","W","X","Y","Z",
     "0","1","2","3","4","5","6","7","8","9","_"}

\* The characters from U+0080 to U+00FF the word class matches: the pattern
\* is a str pattern, so the class is Unicode's (str.isalnum or underscore).
Latin1WordChars ==
    {"ª", "²", "³", "µ", "¹", "º", "¼", "½", "¾", "À", "Á", "Â", "Ã", "Ä",
     "Å", "Æ", "Ç", "È", "É", "Ê", "Ë", "Ì", "Í", "Î", "Ï", "Ð", "Ñ", "Ò",
     "Ó", "Ô", "Õ", "Ö", "Ø", "Ù", "Ú", "Û", "Ü", "Ý", "Þ", "ß", "à", "á",
     "â", "ã", "ä", "å", "æ", "ç", "è", "é", "ê", "ë", "ì", "í", "î", "ï",
     "ð", "ñ", "ò", "ó", "ô", "õ", "ö", "ø", "ù", "ú", "û", "ü", "ý", "þ",
     "ÿ"}

HexDigits ==
    <<"0", "1", "2", "3", "4", "5", "6", "7", "8", "9",
      "A", "B", "C", "D", "E", "F">>

RECURSIVE Hex(_, _)
\* The hexadecimal digits of n, at least width of them.
Hex(n, width) ==
    IF n = 0 /\ width <= 0
    THEN ""
    ELSE Hex(n \div 16, width - 1) \o HexDigits[(n % 16) + 1]

\* The character with code point n, beyond U+00FF: "U+0416".
CodePointName(n) == "U+" \o Hex(n, 4)

\* The code points beyond U+00FF of the characters the word class matches,
\* as ranges (first, last), in decimal: the characters for which
\* str.isalnum is true, under the Unicode database of the interpreter
\* (14.0.0, Python 3.11).
FarWordRanges ==
    << <<256, 705>>, <<710, 721>>, <<736, 740>>, <<748, 748>>, <<750, 750>>,
       <<880, 884>>, <<886, 887>>, <<890, 893>>, <<895, 895>>, <<902, 902>>,
       <<904, 906>>, <<908, 908>>, <<910, 929>>, <<931, 1013>>,
       <<1015, 1153>>, <<1162, 1327>>, <<1329, 1366>>, <<1369, 1369>>,
       <<1376, 1416>>, <<1488, 1514>>, <<1519, 1522>>, <<1568, 1610>>,
       <<1632, 1641>>, <<1646, 1647>>, <<1649, 1747>>, <<1749, 1749>>,
       <<1765, 1766>>, <<1774, 1788>>, <<1791, 1791>>, <<1808, 1808>>,
       <<1810, 1839>>, <<1869, 1957>>, <<1969, 1969>>, <<1984, 2026>>,
       <<2036, 2037>>, <<2042, 2042>>, <<2048, 2069>>, <<2074, 2074>>,
       <<2084, 2084>>, <<2088, 2088>>, <<2112, 2136>>, <<2144, 2154>>,
       <<2160, 2183>>, <<2185, 2190>>, <<2208, 2249>>, <<2308, 2361>>,
       <<2365, 2365>>, <<2384, 2384>>, <<2392, 2401>>, <<2406, 2415>>,
       <<2417, 2432>>, <<2437, 2444>>, <<2447, 2448>>, <<2451, 2472>>,
       <<2474, 2480>>, <<2482, 2482>>, <<2486, 2489>>, <<2493, 2493>>,
       <<2510, 2510>>, <<2524, 2525>>, <<2527, 2529>>, <<2534, 2545>>,
       <<2548, 2553>>, <<2556, 2556>>, <<2565, 2570>>, <<2575, 2576>>,
       <<2579, 2600>>, <<2602, 2608>>, <<2610, 2611>>, <<2613, 2614>>,
       <<2616, 2617>>, <<2649, 2652>>, <<2654, 2654>>, <<2662, 2671>>,
       <<2674, 2676>>, <<2693, 2701>>, <<2703, 2705>>, <<2707, 2728>>,
       <<2730, 2736>>, <<2738, 2739>>, <<2741, 2745>>, <<2749, 2749>>,
       <<2768, 2768>>, <<2784, 2785>>, <<2790, 2799>>, <<2809, 2809>>,
       <<2821, 2828>>, <<2831, 2832>>, <<2835, 2856>>, <<2858, 2864>>,
       <<2866, 2867>>, <<2869, 2873>>, <<2877, 2877>>, <<2908, 2909>>,
       <<2911, 2913>>, <<2918, 2927>>, <<2929, 2935>>, <<2947, 2947>>,
       <<2949, 2954>>, <<2958, 2960>>, <<2962, 2965>>, <<2969, 2970>>,
       <<2972, 2972>>, <<2974, 2975>>, <<2979, 2980>>, <<2984, 2986>>,
       <<2990, 3001>>, <<3024, 3024>>, <<3046, 3058>>, <<3077, 3084>>,
       <<3086, 3088>>, <<3090, 3112>>, <<3114, 3129>>, <<3133, 3133>>,
       <<3160, 3162>>, <<3165, 3165>>, <<3168, 3169>>, <<3174, 3183>>,
       <<3192, 3198>>, <<3200, 3200>>, <<3205, 3212>>, <<3214, 3216>>,
       <<3218, 3240>>, <<3242, 3251>>, <<3253, 3257>>, <<3261, 3261>>,
       <<3293, 3294>>, <<3296, 3297>>, <<3302, 3311>>, <<3313, 3314>>,
       <<3332, 3340>>, <<3342, 3344>>, <<3346, 3386>>, <<3389, 3389>>,
       <<3406, 3406>>, <<3412, 3414>>, <<3416, 3425>>, <<3430, 3448>>,
       <<3450, 3455>>, <<3461, 3478>>, <<3482, 3505>>, <<3507, 3515>>,
       <<3517, 3517>>, <<3520, 3526>>, <<3558, 3567>>, <<3585, 3632>>,
       <<3634, 3635>>, <<3648, 3654>>, <<3664, 3673>>, <<3713, 3714>>,
       <<3716, 3716>>, <<3718, 3722>>, <<3724, 3747>>, <<3749, 3749>>,
       <<3751, 3760>>, <<3762, 3763>>, <<3773, 3773>>, <<3776, 3780>>,
       <<3782, 3782>>, <<3792, 3801>>, <<3804, 3807>>, <<3840, 3840>>,
       <<3872, 3891>>, <<3904, 3911>>, <<3913, 3948>>, <<3976, 3980>>,
       <<4096, 4138>>, <<4159, 4169>>, <<4176, 4181>>, <<4186, 4189>>,
       <<4193, 4193>>, <<4197, 4198>>, <<4206, 4208>>, <<4213, 4225>>,
       <<4238, 4238>>, <<4240, 4249>>, <<4256, 4293>>, <<4295, 4295>>,
       <<4301, 4301>>, <<4304, 4346>>, <<4348, 4680>>, <<4682, 4685>>,
       <<4688, 4694>>, <<4696, 4696>>, <<4698, 4701>>, <<4704, 4744>>,
       <<4746, 4749>>, <<4752, 4784>>, <<4786, 4789>>, <<4792, 4798>>,
       <<4800, 4800>>, <<4802, 4805>>, <<4808, 4822>>, <<4824, 4880>>,
       <<4882, 4885>>, <<4888, 4954>>, <<4969, 4988>>, <<4992, 5007>>,
       <<5024, 5109>>, <<5112, 5117>>, <<5121, 5740>>, <<5743, 5759>>,
       <<5761, 5786>>, <<5792, 5866>>, <<5870, 5880>>, <<5888, 5905>>,
       <<5919, 5937>>, <<5952, 5969>>, <<5984, 5996>>, <<5998, 6000>>,
       <<6016, 6067>>, <<6103, 6103>>, <<6108, 6108>>, <<6112, 6121>>,
       <<6128, 6137>>, <<6160, 6169>>, <<6176, 6264>>, <<6272, 6276>>,
       <<6279, 6312>>, <<6314, 6314>>, <<6320, 6389>>, <<6400, 6430>>,
       <<6470, 6509>>, <<6512, 6516>>, <<6528, 6571>>, <<6576, 6601>>,
       <<6608, 6618>>, <<6656, 6678>>, <<6688, 6740>>, <<6784, 6793>>,
       <<6800, 6809>>, <<6823, 6823>>, <<6917, 6963>>, <<6981, 6988>>,
       <<6992, 7001>>, <<7043, 7072>>, <<7086, 7141>>, <<7168, 7203>>,
       <<7232, 7241>>, <<7245, 7293>>, <<7296, 7304>>, <<7312, 7354>>,
       <<7357, 7359>>, <<7401, 7404>>, <<7406, 7411>>, <<7413, 7414>>,
       <<7418, 7418>>, <<7424, 7615>>, <<7680, 7957>>, <<7960, 7965>>,
       <<7968, 8005>>, <<8008, 8013>>, <<8016, 8023>>, <<8025, 8025>>,
       <<8027, 8027>>, <<8029, 8029>>, <<8031, 8061>>, <<8064, 8116>>,
       <<8118, 8124>>, <<8126, 8126>>, <<8130, 8132>>, <<8134, 8140>>,
       <<8144, 8147>>, <<8150, 8155>>, <<8160, 8172>>, <<8178, 8180>>,
       <<8182, 8188>>, <<8304, 8305>>, <<8308, 8313>>, <<8319, 8329>>,
       <<8336, 8348>>, <<8450, 8450>>, <<8455, 8455>>, <<8458, 8467>>,
       <<8469, 8469>>, <<8473, 8477>>, <<8484, 8484>>, <<8486, 8486>>,
       <<8488, 8488>>, <<8490, 8493>>, <<8495, 8505>>, <<8508, 8511>>,
       <<8517, 8521>>, <<8526, 8526>>, <<8528, 8585>>, <<9312, 9371>>,
       <<9450, 9471>>, <<10102, 10131>>, <<11264, 11492>>, <<11499, 11502>>,
       <<11506, 11507>>, <<11517, 11517>>, <<11520, 11557>>,
       <<11559, 11559>>, <<11565, 11565>>, <<11568, 11623>>,
       <<11631, 11631>>, <<11648, 11670>>, <<11680, 11686>>,
       <<11688, 11694>>, <<11696, 11702>>, <<11704, 11710>>,
       <<11712, 11718>>, <<11720, 11726>>, <<11728, 11734>>,
       <<11736, 11742>>, <<11823, 11823>>, <<12293, 12295>>,
       <<12321, 12329>>, <<12337, 12341>>, <<12344, 12348>>,
       <<12353, 12438>>, <<12445, 12447>>, <<12449, 12538>>,
       <<12540, 12543>>, <<12549, 12591>>, <<12593, 12686>>,
       <<12690, 12693>>, <<12704, 12735>>, <<12784, 12799>>,
       <<12832, 12841>>, <<12872, 12879>>, <<12881, 12895>>,
       <<12928, 12937>>, <<12977, 12991>>, <<13312, 19903>>,
       <<19968, 42124>>, <<42192, 42237>>, <<42240, 42508>>,
       <<42512, 42539>>, <<42560, 42606>>, <<42623, 42653>>,
       <<42656, 42735>>, <<42775, 42783>>, <<42786, 42888>>,
       <<42891, 42954>>, <<42960, 42961>>, <<42963, 42963>>,
       <<42965, 42969>>, <<42994, 43009>>, <<43011, 43013>>,
       <<43015, 43018>>, <<43020, 43042>>, <<43056, 43061>>,
       <<43072, 43123>>, <<43138, 43187>>, <<43216, 43225>>,
       <<43250, 43255>>, <<43259, 43259>>, <<43261, 43262>>,
       <<43264, 43301>>, <<43312, 43334>>, <<43360, 43388>>,
       <<43396, 43442>>, <<43471, 43481>>, <<43488, 43492>>,
       <<43494, 43518>>, <<43520, 43560>>, <<43584, 43586>>,
       <<43588, 43595>>, <<43600, 43609>>, <<43616, 43638>>,
       <<43642, 43642>>, <<43646, 43695>>, <<43697, 43697>>,
       <<43701, 43702>>, <<43705, 43709>>, <<43712, 43712>>,
       <<43714, 43714>>, <<43739, 43741>>, <<43744, 43754>>,
       <<43762, 43764>>, <<43777, 43782>>, <<43785, 43790>>,
       <<43793, 43798>>, <<43808, 43814>>, <<43816, 43822>>,
       <<43824, 43866>>, <<43868, 43881>>, <<43888, 44002>>,
       <<44016, 44025>>, <<44032, 55203>>, <<55216, 55238>>,
       <<55243, 55291>>, <<63744, 64109>>, <<64112, 64217>>,
       <<64256, 64262>>, <<64275, 64279>>, <<64285, 64285>>,
       <<64287, 64296>>, <<64298, 64310>>, <<64312, 64316>>,
       <<64318, 64318>>, <<64320, 64321>>, <<64323, 64324>>,
       <<64326, 64433>>, <<64467, 64829>>, <<64848, 64911>>,
       <<64914, 64967>>, <<65008, 65019>>, <<65136, 65140>>,
       <<65142, 65276>>, <<65296, 65305>>, <<65313, 65338>>,
       <<65345, 65370>>, <<65382, 65470>>, <<65474, 65479>>,
       <<65482, 65487>>, <<65490, 65495>>, <<65498, 65500>>,
       <<65536, 65547>>, <<65549, 65574>>, <<65576, 65594>>,
       <<65596, 65597>>, <<65599, 65613>>, <<65616, 65629>>,
       <<65664, 65786>>, <<65799, 65843>>, <<65856, 65912>>,
       <<65930, 65931>>, <<66176, 66204>>, <<66208, 66256>>,
       <<66273, 66299>>, <<66304, 66339>>, <<66349, 66378>>,
       <<66384, 66421>>, <<66432, 66461>>, <<66464, 66499>>,
       <<66504, 66511>>, <<66513, 66517>>, <<66560, 66717>>,
       <<66720, 66729>>, <<66736, 66771>>, <<66776, 66811>>,
       <<66816, 66855>>, <<66864, 66915>>, <<66928, 66938>>,
       <<66940, 66954>>, <<66956, 66962>>, <<66964, 66965>>,
       <<66967, 66977>>, <<66979, 66993>>, <<66995, 67001>>,
       <<67003, 67004>>, <<67072, 67382>>, <<67392, 67413>>,
       <<67424, 67431>>, <<67456, 67461>>, <<67463, 67504>>,
       <<67506, 67514>>, <<67584, 67589>>, <<67592, 67592>>,
       <<67594, 67637>>, <<67639, 67640>>, <<67644, 67644>>,
       <<67647, 67669>>, <<67672, 67702>>, <<67705, 67742>>,
       <<67751, 67759>>, <<67808, 67826>>, <<67828, 67829>>,
       <<67835, 67867>>, <<67872, 67897>>, <<67968, 68023>>,
       <<68028, 68047>>, <<68050, 68096>>, <<68112, 68115>>,
       <<68117, 68119>>, <<68121, 68149>>, <<68160, 68168>>,
       <<68192, 68222>>, <<68224, 68255>>, <<68288, 68295>>,
       <<68297, 68324>>, <<68331, 68335>>, <<68352, 68405>>,
       <<68416, 68437>>, <<68440, 68466>>, <<68472, 68497>>,
       <<68521, 68527>>, <<68608, 68680>>, <<68736, 68786>>,
       <<68800, 68850>>, <<68858, 68899>>, <<68912, 68921>>,
       <<69216, 69246>>, <<69248, 69289>>, <<69296, 69297>>,
       <<69376, 69415>>, <<69424, 69445>>, <<69457, 69460>>,
       <<69488, 69505>>, <<69552, 69579>>, <<69600, 69622>>,
       <<69635, 69687>>, <<69714, 69743>>, <<69745, 69746>>,
       <<69749, 69749>>, <<69763, 69807>>, <<69840, 69864>>,
       <<69872, 69881>>, <<69891, 69926>>, <<69942, 69951>>,
       <<69956, 69956>>, <<69959, 69959>>, <<69968, 70002>>,
       <<70006, 70006>>, <<70019, 70066>>, <<70081, 70084>>,
       <<70096, 70106>>, <<70108, 70108>>, <<70113, 70132>>,
       <<70144, 70161>>, <<70163, 70187>>, <<70272, 70278>>,
       <<70280, 70280>>, <<70282, 70285>>, <<70287, 70301>>,
       <<70303, 70312>>, <<70320, 70366>>, <<70384, 70393>>,
       <<70405, 70412>>, <<70415, 70416>>, <<70419, 70440>>,
       <<70442, 70448>>, <<70450, 70451>>, <<70453, 70457>>,
       <<70461, 70461>>, <<70480, 70480>>, <<70493, 70497>>,
       <<70656, 70708>>, <<70727, 70730>>, <<70736, 70745>>,
       <<70751, 70753>>, <<70784, 70831>>, <<70852, 70853>>,
       <<70855, 70855>>, <<70864, 70873>>, <<71040, 71086>>,
       <<71128, 71131>>, <<71168, 71215>>, <<71236, 71236>>,
       <<71248, 71257>>, <<71296, 71338>>, <<71352, 71352>>,
       <<71360, 71369>>, <<71424, 71450>>, <<71472, 71483>>,
       <<71488, 71494>>, <<71680, 71723>>, <<71840, 71922>>,
       <<71935, 71942>>, <<71945, 71945>>, <<71948, 71955>>,
       <<71957, 71958>>, <<71960, 71983>>, <<71999, 71999>>,
       <<72001, 72001>>, <<72016, 72025>>, <<72096, 72103>>,
       <<72106, 72144>>, <<72161, 72161>>, <<72163, 72163>>,
       <<72192, 72192>>, <<72203, 72242>>, <<72250, 72250>>,
       <<72272, 72272>>, <<72284, 72329>>, <<72349, 72349>>,
       <<72368, 72440>>, <<72704, 72712>>, <<72714, 72750>>,
       <<72768, 72768>>, <<72784, 72812>>, <<72818, 72847>>,
       <<72960, 72966>>, <<72968, 72969>>, <<72971, 73008>>,
       <<73030, 73030>>, <<73040, 73049>>, <<73056, 73061>>,
       <<73063, 73064>>, <<73066, 73097>>, <<73112, 73112>>,
       <<73120, 73129>>, <<73440, 73458>>, <<73648, 73648>>,
       <<73664, 73684>>, <<73728, 74649>>, <<74752, 74862>>,
       <<74880, 75075>>, <<77712, 77808>>, <<77824, 78894>>,
       <<82944, 83526>>, <<92160, 92728>>, <<92736, 92766>>,
       <<92768, 92777>>, <<92784, 92862>>, <<92864, 92873>>,
       <<92880, 92909>>, <<92928, 92975>>, <<92992, 92995>>,
       <<93008, 93017>>, <<93019, 93025>>, <<93027, 93047>>,
       <<93053, 93071>>, <<93760, 93846>>, <<93952, 94026>>,
       <<94032, 94032>>, <<94099, 94111>>, <<94176, 94177>>,
       <<94179, 94179>>, <<94208, 100343>>, <<100352, 101589>>,
       <<101632, 101640>>, <<110576, 110579>>, <<110581, 110587>>,
       <<110589, 110590>>, <<110592, 110882>>, <<110928, 110930>>,
       <<110948, 110951>>, <<110960, 111355>>, <<113664, 113770>>,
       <<113776, 113788>>, <<113792, 113800>>, <<113808, 113817>>,
       <<119520, 119539>>, <<119648, 119672>>, <<119808, 119892>>,
       <<119894, 119964>>, <<119966, 119967>>, <<119970, 119970>>,
       <<119973, 119974>>, <<119977, 119980>>, <<119982, 119993>>,
       <<119995, 119995>>, <<119997, 120003>>, <<120005, 120069>>,
       <<120071, 120074>>, <<120077, 120084>>, <<120086, 120092>>,
       <<120094, 120121>>, <<120123, 120126>>, <<120128, 120132>>,
       <<120134, 120134>>, <<120138, 120144>>, <<120146, 120485>>,
       <<120488, 120512>>, <<120514, 120538>>, <<120540, 120570>>,
       <<120572, 120596>>, <<120598, 120628>>, <<120630, 120654>>,
       <<120656, 120686>>, <<120688, 120712>>, <<120714, 120744>>,
       <<120746, 120770>>, <<120772, 120779>>, <<120782, 120831>>,
       <<122624, 122654>>, <<123136, 123180>>, <<123191, 123197>>,
       <<123200, 123209>>, <<123214, 123214>>, <<123536, 123565>>,
       <<123584, 123627>>, <<123632, 123641>>, <<124896, 124902>>,
       <<124904, 124907>>, <<124909, 124910>>, <<124912, 124926>>,
       <<124928, 125124>>, <<125127, 125135>>, <<125184, 125251>>,
       <<125259, 125259>>, <<125264, 125273>>, <<126065, 126123>>,
       <<126125, 126127>>, <<126129, 126132>>, <<126209, 126253>>,
       <<126255, 126269>>, <<126464, 126467>>, <<126469, 126495>>,
       <<126497, 126498>>, <<126500, 126500>>, <<126503, 126503>>,
       <<126505, 126514>>, <<126516, 126519>>, <<126521, 126521>>,
       <<126523, 126523>>, <<126530, 126530>>, <<126535, 126535>>,
       <<126537, 126537>>, <<126539, 126539>>, <<126541, 126543>>,
       <<126545, 126546>>, <<126548, 126548>>, <<126551, 126551>>,
       <<126553, 126553>>, <<126555, 126555>>, <<126557, 126557>>,
       <<126559, 126559>>, <<126561, 126562>>, <<126564, 126564>>,
       <<126567, 126570>>, <<126572, 126578>>, <<126580, 126583>>,
       <<126585, 126588>>, <<126590, 126590>>, <<126592, 126601>>,
       <<126603, 126619>>, <<126625, 126627>>, <<126629, 126633>>,
       <<126635, 126651>>, <<127232, 127244>>, <<130032, 130041>>,
       <<131072, 173791>>, <<173824, 177976>>, <<177984, 178205>>,
       <<178208, 183969>>, <<183984, 191456>>, <<194560, 195101>>,
       <<196608, 201546>> >>

\* The code points of those ranges.
FarWordCodePoints ==
    UNION {FarWordRanges[i][1]..FarWordRanges[i][2] : i \in DOMAIN FarWordRanges}

\* The characters beyond U+00FF the word class matches.
FarWordChars == {CodePointName(n) : n \in FarWordCodePoints}

\* The characters the word class matches (letters, digits, underscore).
WordChars == AsciiWordChars \cup Latin1WordChars \cup FarWordChars

\* The characters of the class of group 1: word characters and the dot.
PrefixChars == WordChars \cup {"."}

\* The whitespace up to U+00FF: tab, line break, vertical tab, form feed,
\* carriage return, the separators U+001C to U+001F, space, next line
\* (U+0085) and no-break space (U+00A0).
Latin1SpaceChars ==
    {"\t", "\n", "", "\f", "\r", "", "", "", "", " ", "", " "}

\* The whitespace beyond U+00FF.
FarSpaceChars ==
    {"U+1680", "U+2000", "U+2001", "U+2002", "U+2003", "U+2004", "U+2005",
     "U+2006", "U+2007", "U+2008", "U+2009", "U+200A", "U+2028", "U+2029",
     "U+202F", "U+205F", "U+3000"}

\* The characters the whitespace class, str.isspace and str.strip treat as
\* whitespace: all three use Unicode's whitespace.
SpaceChars == Latin1SpaceChars \cup FarSpaceChars

\* The line break, which the dot of the pattern does not match (no
\* re.DOTALL) and before which, at the end, the dollar matches (no
\* re.MULTILINE).
LineBreak == "\n"

\* re.IGNORECASE on the letters of the keyword "return".
LowerChar(c) ==
    CASE c = "R" -> "r"
      [] c = "E" -> "e"
      [] c = "T" -> "t"
      [] c = "U" -> "u"
      [] c = "N" -> "n"
      [] OTHER -> c

ReturnKeyword == <<"r","e","t","u","r","n">>

Max(S) == CHOOSE x \in S : \A y \in S : y <= x

Min(S) == CHOOSE x \in S : \A y \in S : x <= y

\* s[a..b] as Python's s[a-1:b]; empty when a > b.
Slice(s, a, b) == IF a > b THEN <<>> ELSE SubSeq(s, a, b)

(***************************************************************************)
(* plsql_sig_re (re.VERBOSE | re.IGNORECASE), matched the way Python's     *)
(* backtracking matcher does: every quantifier is greedy, an optional      *)
(* group is tried before it is skipped, and the first complete match in    *)
(* that order is the result.  The pattern is, in order: an optional group  *)
(* 1 of word characters and dots ending in a dot; group 2, an optional     *)
(* dollar and one or more word characters; whitespace; optionally an       *)
(* opening parenthesis, group 3 (any characters) and a closing             *)
(* parenthesis; optionally whitespace, the keyword return, whitespace and  *)
(* group 4 (any characters); the end of the string.  "Any characters" are  *)
(* any but the line break, and the end of the string is also the place     *)
(* before a line break that ends the string.                               *)
(***************************************************************************)

\* The largest element of a set of numbers, 0 for the empty set.
MaxOrZero(S) == IF S = {} THEN 0 ELSE Max(S)

\* The end of the longest run of characters of class C starting after p.
RunEnd(s, p, C) ==
    Min({q \in p..Len(s) : q = Len(s) \/ s[q + 1] \notin C})

\* The end of the longest run of characters other than the line break
\* starting after p: what the greedy dot run of group 3 or 4 takes.
DotEnd(s, p) ==
    Min({q \in p..Len(s) : q = Len(s) \/ s[q + 1] = LineBreak})

\* The dollar at position p: the end of the string, or the place before a
\* line break that ends the string.
AtEnd(s, p) ==
    \/ p = Len(s)
    \/ p = Len(s) - 1 /\ s[Len(s)] = LineBreak

\* Group 4 tried after position r and ending at q, where its dot run ends:
\* the dollar has to match there.  (Giving characters back does not help:
\* the dollar matches nowhere before q.)
ReturnGroup(s, r, q) == IF AtEnd(s, q) THEN Slice(s, r + 1, q) ELSE None

\* The whitespace after the keyword having ended at r, group 4 and the end.
ReturnTail(s, r) == ReturnGroup(s, r, DotEnd(s, r))

\* The keyword "return" (in any case) tried right after position q, then
\* whitespace, group 4 and the end of the string: the return annotation,
\* or None when the return part does not match there.
ReturnFrom(s, q) ==
    IF q + 6 <= Len(s)
       /\ \A t \in 1..6 : LowerChar(s[q + t]) = ReturnKeyword[t]
    THEN ReturnTail(s, RunEnd(s, q + 6, SpaceChars))
    ELSE None

\* The return part (whitespace, "return", whitespace, group 4) tried at
\* position p (p characters consumed).
ReturnAt(s, p) == ReturnFrom(s, RunEnd(s, p, SpaceChars))

\* The ")" that can close an argument list opened right after position k:
\* group 3 holds no line break, and what follows the ")" is the return part
\* or the end of the string.
Closes(s, k) ==
    IF k < Len(s) /\ s[k + 1] = "("
    THEN {c \in (k + 2)..(DotEnd(s, k + 1) + 1) :
            /\ c <= Len(s)
            /\ s[c] = ")"
            /\ (AtEnd(s, c) \/ ReturnAt(s, c) # None)}
    ELSE {}

\* The groups when the argument list opened after k is closed at c.
TailClosed(s, k, c) ==
    [matched |-> TRUE,
     arglist |-> Slice(s, k + 2, c - 1),
     retann  |-> ReturnAt(s, c)]

\* The groups when there is no argument list after k: ret is the return
\* part tried at k.
TailOpen(s, k, ret) ==
    IF ret # None
    THEN [matched |-> TRUE, arglist |-> None, retann |-> ret]
    ELSE IF AtEnd(s, k)
    THEN [matched |-> TRUE, arglist |-> None, retann |-> None]
    ELSE [matched |-> FALSE, arglist |-> None, retann |-> None]

\* Group 3 is greedy, so the last usable ")" closes the argument list.
TailPick(s, k, closes) ==
    IF closes # {}
    THEN TailClosed(s, k, Max(closes))
    ELSE TailOpen(s, k, ReturnAt(s, k))

\* Everything after the name and its trailing whitespace, tried at position
\* k: the parenthesised group 3, the return part, the end of the string.
TailAt(s, k) == TailPick(s, k, Closes(s, k))

\* The word characters of group 2 tried after position b: the end of the
\* name, 0 when no name lets the rest match.  The word run is greedy, so
\* the longest name that lets the rest match is taken.
NameEndFrom(s, b) ==
    MaxOrZero({j \in (b + 1)..RunEnd(s, b, WordChars) :
                 TailAt(s, RunEnd(s, j, SpaceChars)).matched})

\* Group 2 (an optional dollar, then word characters) and the rest, the
\* prefix group having consumed i characters.
NameEnd(s, i) ==
    NameEndFrom(s, IF i < Len(s) /\ s[i + 1] = "$" THEN i + 1 ELSE i)

\* Group 1: the ends of the prefix the group can take.
PrefixEnds(s) ==
    {i \in 1..Len(s) :
        /\ s[i] = "."
        /\ \A t \in 1..i : s[t] \in PrefixChars}

NoMatch ==
    [matched |-> FALSE, name_prefix |-> None, name |-> None,
     arglist |-> None, retann |-> None]

\* m.groups() for the prefix ending at i, the name ending at j and the
\* tail t.
SigGroups(s, i, j, t) ==
    [matched |-> TRUE,
     name_prefix |-> IF i = 0 THEN None ELSE Slice(s, 1, i),
     name |-> Slice(s, i + 1, j),
     arglist |-> t.arglist,
     retann |-> t.retann]

\* The match with the prefix ending at i (0: the group skipped).
SigMatchAt(s, i, j) ==
    SigGroups(s, i, j, TailAt(s, RunEnd(s, j, SpaceChars)))

\* The run of word characters and dots of group 1 is greedy, so the longest
\* usable prefix is taken.
SigPick(s, usable) ==
    IF usable = {}
    THEN NoMatch
    ELSE SigMatchAt(s, Max(usable), NameEnd(s, Max(usable)))

\* plsql_sig_re.match(sig) with m.groups().
SigMatch(s) ==
    SigPick(s, {i \in PrefixEnds(s) \cup {0} : NameEnd(s, i) # 0})

(***************************************************************************)
(* Python's str and dict operations the code uses.                         *)
(***************************************************************************)

RECURSIVE SplitOn(_, _)
\* s.split(c) for a one-character separator: always at least one piece.
SplitOn(s, c) ==
    LET at == {i \in 1..Len(s) : s[i] = c}
    IN  IF at = {}
        THEN <<s>>
        ELSE <<Slice(s, 1, Min(at) - 1)>>
             \o SplitOn(Slice(s, Min(at) + 1, Len(s)), c)

RECURSIVE JoinWith(_, _)
\* c.join(pieces) for a one-character separator.
JoinWith(pieces, c) ==
    IF pieces = <<>> THEN <<>>
    ELSE IF Len(pieces) = 1 THEN pieces[1]
    ELSE pieces[1] \o <<c>> \o JoinWith(Tail(pieces), c)

\* s.isspace(): non-empty and whitespace only.
IsSpace(s) == s # <<>> /\ \A i \in 1..Len(s) : s[i] \in SpaceChars

\* s.strip(): without its leading and trailing whitespace.
Strip(s) ==
    LET inked == {i \in 1..Len(s) : s[i] \notin SpaceChars}
    IN  IF inked = {} THEN <<>> ELSE Slice(s, Min(inked), Max(inked))

\* Python's truth value of an optional string: None and '' are false.
Truthy(s) == s # None /\ s # <<>>

\* The empty dict.
EmptyDict == [k \in {} |-> None]

\* d[k] = v on a copy of d.
DictSet(d, k, v) == [x \in DOMAIN d \cup {k} |-> IF x = k THEN v ELSE d[x]]

\* del d[k] for every key of the set ks, on a copy of d.
DictDel(d, ks) == [x \in DOMAIN d \ ks |-> d[x]]

(***************************************************************************)
(* PlSqlObject.handle_signature.                                           *)
(***************************************************************************)

InPackageKey == "plsql:in_package"

CurrentPackageKey == "plsql:current_package"

\* The object types of PlSqlDomain.object_types, the directive names.
ObjTypes ==
    {"package", "procedure", "function", "library", "type", "table",
     "trigger"}

\* The role names of PlSqlDomain.roles, and the typerolename 'obj' the
\* parameter field uses.
RoleNames == {"pkg", "meth", "lib", "type", "tbl", "trg", "obj"}

\* The truth value of env.temp_data.get('plsql:in_package'): a missing key
\* gives None, which is false.
InPackage(td) == InPackageKey \in DOMAIN td /\ td[InPackageKey]

\* get_signature_prefix of every directive class: objtype + ' '.
GetSignaturePrefix(objtype) == <<objtype, " ">>

\* A child node appended to the signature node.
Node(kind, text) == [node |-> kind, text |-> text, params |-> <<>>]

\* The loop over arglist.split(','): the desc_parameter children, in order.
ParameterTokens(arglist) ==
    LET pieces == SplitOn(arglist, ",")
        kept   == SelectSeq(pieces,
                            LAMBDA t : ~(t = <<>> \/ t = <<",">> \/ IsSpace(t)))
    IN  [i \in 1..Len(kept) |-> Strip(kept[i])]

\* A raise out of handle_signature: nothing returned.
Raised(exception) ==
    [raised |-> exception, fullname |-> None, signode |-> <<>>]

\* A slip: the package name is put in front of the written prefix instead
\* of replacing it.
NamePrefixKeepsWritten(m, td) ==
    IF InPackage(td)
    THEN td[CurrentPackageKey] \o <<".">>
         \o (IF m.name_prefix = None THEN <<>> ELSE m.name_prefix)
    ELSE IF m.name_prefix = None THEN <<>> ELSE m.name_prefix

\* name_prefix as handle_signature settles it: '' for a missing prefix,
\* and inside a package the current package's name and a dot, whatever
\* prefix was written.
NamePrefix(m, td) ==
    IF InPackage(td) THEN td[CurrentPackageKey] \o <<".">>
    ELSE IF m.name_prefix = None THEN <<>> ELSE m.name_prefix

\* handle_signature from the groups of a match on: the children are
\* appended to signode and the full name is returned.
Qualify(m, td, objtype) ==
    LET in_package == InPackage(td)
        name_prefix == NamePrefix(m, td)
        annotations ==
            <<Node("desc_annotation", GetSignaturePrefix(objtype))>>
            \o (IF ~in_package
                THEN <<Node("desc_annotation", name_prefix)>> ELSE <<>>)
        parameters ==
            IF Truthy(m.arglist)
            THEN <<[node |-> "desc_parameterlist", text |-> <<>>,
                    params |-> ParameterTokens(m.arglist)]>>
            ELSE <<>>
        returns ==
            IF Truthy(m.retann)
            THEN <<Node("desc_returns", m.retann)>> ELSE <<>>
    IN  IF in_package /\ CurrentPackageKey \notin DOMAIN td
        THEN Raised("KeyError")
        ELSE [raised |-> "no",
              fullname |-> name_prefix \o m.name,
              signode |-> annotations \o <<Node("desc_name", m.name)>>
                          \o parameters \o returns]

\* A slip: the signature prefix is appended before the match is looked at.
HandleMatchAppendsFirst(m, td, objtype) ==
    IF ~m.matched
    THEN [raised |-> "ValueError", fullname |-> None,
          signode |-> <<Node("desc_annotation", GetSignaturePrefix(objtype))>>]
    ELSE Qualify(m, td, objtype)

\* handle_signature after m = plsql_sig_re.match(sig).
HandleMatch(m, td, objtype) ==
    IF ~m.matched THEN Raised("ValueError") ELSE Qualify(m, td, objtype)

\* handle_signature(sig, signode) under env.temp_data = td, in a directive
\* of type objtype: what it raises or returns, and the children it appended
\* to signode.
HandleSignature(s, td, objtype) == HandleMatch(SigMatch(s), td, objtype)

(***************************************************************************)
(* PlSqlObject.add_target_and_index, PlSqlPackage.before_content and       *)
(* after_content, PlSqlDomain.clear_doc and resolve_xref.                  *)
(***************************************************************************)

\* An entry of env.domaindata['plsql']['objects']: fullname -> (docname,
\* objtype).
Entry(doc, objtype) == [docname |-> doc, objtype |-> objtype]

\* The reporter's duplicate warning: the name, and the document of the
\* other instance (inv[name][0]).
DuplicateWarning(name, inv) == [name |-> name, other |-> inv[name].docname]

\* add_target_and_index(name, sig, signode) in document doc, whose
\* state.document.ids is docids: the ids, the index and the reporter's
\* warnings afterwards.
AddTargetAndIndex(name, doc, objtype, docids, inv, reported) ==
    IF name \notin docids
    THEN [ids |-> docids \cup {name},
          objects |-> DictSet(inv, name, Entry(doc, objtype)),
          warnings |-> IF name \in DOMAIN inv
                       THEN Append(reported, DuplicateWarning(name, inv))
                       ELSE reported]
    ELSE [ids |-> docids, objects |-> inv, warnings |-> reported]

\* PlSqlPackage.before_content, self.names being names.
BeforeContent(td, names) ==
    LET entered == DictSet(td, InPackageKey, TRUE)
    IN  IF names # <<>>
        THEN DictSet(entered, CurrentPackageKey, names[1])
        ELSE entered

\* A slip: after_content leaves in_package as it is.
AfterContentStaysInside(td) == td

\* PlSqlPackage.after_content.
AfterContent(td) == DictSet(td, InPackageKey, FALSE)

\* A slip: clear_doc forgets the owner test and deletes every entry.
ClearDocDeletesAll(inv, doc) == EmptyDict

\* A slip: clear_doc compares with the wrong field and deletes nothing.
ClearDocDeletesNone(inv, doc) ==
    DictDel(inv, {fullname \in DOMAIN inv : inv[fullname].objtype = doc})

\* PlSqlDomain.clear_doc(docname).
ClearDoc(inv, doc) ==
    DictDel(inv, {fullname \in DOMAIN inv : inv[fullname].docname = doc})

\* PlSqlXRefRole.process_link: the title and the target as given.
ProcessLink(has_explicit_title, title, target) == <<title, target>>

\* resolve_xref's None.
NoRef ==
    [resolved |-> FALSE, refdoc |-> None, anchor |-> None, reftitle |-> None]

\* A slip: resolve_xref looks the target up only for the role 'obj'.
ResolveXrefByRole(inv, typ, target) ==
    IF target \notin DOMAIN inv \/ typ # "obj"
    THEN NoRef
    ELSE [resolved |-> TRUE, refdoc |-> inv[target].docname,
          anchor |-> target, reftitle |-> target]

\* PlSqlDomain.resolve_xref: make_refnode(builder, fromdocname, obj[0],
\* target, contnode, target), or None.
ResolveXref(inv, typ, target) ==
    IF target \notin DOMAIN inv
    THEN NoRef
    ELSE [resolved |-> TRUE, refdoc |-> inv[target].docname,
          anchor |-> target, reftitle |-> target]

(***************************************************************************)
(* PlSqlTypedField.make_field.                                             *)
(***************************************************************************)

\* nodes.Text(text).
TextNode(text) == [node |-> "Text", text |-> text, reftype |-> None]

\* make_xref(rolename, domain, target): a pending cross-reference, or the
\* plain inner node when the field has no role name.
MakeXref(rolename, target) ==
    IF rolename = None
    THEN [node |-> "inline", text |-> target, reftype |-> None]
    ELSE [node |-> "pending_xref", text |-> target, reftype |-> rolename]

\* PlSqlTypedField('parameter', ..., typerolename='obj'): no rolename.
FieldRoleName == None

FieldTypeRoleName == <<"obj">>

\* The nodes handle_item puts between ' (' and ')' for the type fieldtype, a
\* list of nodes: a single Text is split on ' ', anything else is inserted
\* as it is.
TypeNodes(fieldtype) ==
    IF Len(fieldtype) = 1 /\ fieldtype[1].node = "Text"
    THEN LET typename == fieldtype[1].text
             typename_components == SplitOn(typename, " ")
             n == Len(typename_components)
         IN  IF n = 1
             THEN <<MakeXref(FieldTypeRoleName, typename)>>
             ELSE <<TextNode(JoinWith(SubSeq(typename_components, 1, n - 1),
                                      " ")),
                    TextNode(<<" ">>),
                    MakeXref(FieldTypeRoleName, typename_components[n])>>
    ELSE fieldtype

\* handle_item(fieldarg, content) with the types dict as it is then: the
\* paragraph's children.
HandleItem(fieldarg, types, content) ==
    <<MakeXref(FieldRoleName, fieldarg)>>
    \o (IF fieldarg \in DOMAIN types
        THEN <<TextNode(<<" ", "(">>)>> \o TypeNodes(types[fieldarg])
             \o <<TextNode(<<")">>)>>
        ELSE <<>>)
    \o <<TextNode(<<" ", "-", "-", " ">>)>> \o content

RECURSIVE ListItems(_, _)
\* The loop of make_field over items (pairs of fieldarg and content): one
\* list item per pair, types.pop(fieldarg) taking the type away once used.
ListItems(types, items) ==
    IF items = <<>> THEN <<>>
    ELSE <<HandleItem(items[1][1], types, items[1][2])>>
         \o ListItems(DictDel(types, {items[1][1]}), Tail(items))

\* can_collapse of the parameter field (the TypedField default).
CanCollapse == FALSE

\* make_field(types, domain, items): the field body, a single paragraph
\* when the field collapses and a list of paragraphs otherwise.
MakeField(types, items) ==
    IF Len(items) = 1 /\ CanCollapse
    THEN [collapsed |-> TRUE,
          body |-> <<HandleItem(items[1][1], types, items[1][2])>>]
    ELSE [collapsed |-> FALSE, body |-> ListItems(types, items)]

(***************************************************************************)
(* The build.  The host (Sphinx) reads documents one at a time: it calls   *)
(* clear_doc, then runs the document's directives in source order; each    *)
(* directive's run calls handle_signature, add_target_and_index and        *)
(* before_content, runs the directives of its content, then calls          *)
(* after_content.  References are resolved when no document is being read. *)
(***************************************************************************)

Docs == {"d1", "d2"}

NoDoc == "none"

\* A document is the sequence of its directive events: a directive without
\* content ("decl"), the start of a package directive ("open": its
\* signature, then its content follows) and its end ("close").
Decl(objtype, s) == [op |-> "decl", objtype |-> objtype, sig |-> s]

Open(s) == [op |-> "open", objtype |-> "package", sig |-> s]

Close == [op |-> "close", objtype |-> "package", sig |-> <<>>]

SigP == <<"p">>

SigQ == <<"q">>

SigF == <<"f">>

SigG == <<"g">>

SigPF == <<"p", ".", "f">>

SigMalformed == <<"p", " ", "(">>

\* The contents a document can have.
DocSamples ==
    << \* package p with procedure f
       <<Open(SigP), Decl("procedure", SigF), Close>>,
       \* p.f declared twice in one document, with two kinds
       <<Decl("procedure", SigPF), Decl("function", SigPF)>>,
       \* package q nested in package p, g following q inside p
       <<Open(SigP), Open(SigQ), Decl("procedure", SigF), Close,
         Decl("procedure", SigG), Close>>,
       \* a package whose signature does not parse, with a member
       <<Open(SigMalformed), Decl("procedure", SigF), Close>>,
       \* the same after a package that parsed
       <<Open(SigP), Close, Open(SigMalformed), Decl("function", SigF),
         Close>>,
       \* a single procedure
       <<Decl("procedure", SigG)>>,
       \* a single declaration whose signature does not parse
       <<Decl("function", SigMalformed)>> >>

DocIds == 1..Len(DocSamples)

\* The reference targets and role names tried by the resolver.
TargetSamples ==
    {SigP, SigPF, <<"p", ".", "q", ".", "f">>, SigG, <<"P", ".", "F">>}

RoleSamples == {"meth", "obj"}

NoSignature == [raised |-> "none", fullname |-> None, signode |-> <<>>]

NoXref == [typ |-> "none", target |-> None, title |-> None, node |-> NoRef]

NoField == [collapsed |-> FALSE, body |-> <<>>]

VARIABLES
    content,     \* the source of each document: an index of DocSamples
    stale,       \* whether a document changed since it was last read
    objects,     \* env.domaindata['plsql']['objects']
    temp_data,   \* env.temp_data
    docname,     \* env.docname: the document being read, or NoDoc
    pos,         \* the next event of the document being read
    ids,         \* state.document.ids of the document being read
    warnings,    \* the duplicate warnings reported while reading it
    warned,      \* the names duplicate warnings were ever reported for
    open_names,  \* self.names of each package directive whose content runs
    failure,     \* the exception that escaped a directive, or "no"
    pre,         \* the index as it was when the current read called clear_doc
    signature,   \* what the last handle_signature call raised or returned
    xref,        \* the last reference resolved
    sig,         \* a signature string being written
    typename,    \* a type annotation being written
    typed,       \* the number of pieces written
    field        \* what the last make_field call returned

vars ==
    <<content, stale, objects, temp_data, docname, pos, ids, warnings, warned,
      open_names, failure, pre, signature, xref, sig, typename, typed, field>>

buildVars ==
    <<content, stale, objects, temp_data, docname, pos, ids, warnings, warned,
      open_names, failure, pre, signature, xref>>

textVars == <<sig, typename, typed, field>>

Events(d) == DocSamples[content[d]]

Reading == docname # NoDoc /\ failure = "no"

Idle == docname = NoDoc /\ failure = "no"

Init ==
    /\ content \in [Docs -> DocIds]
    /\ stale = [d \in Docs |-> TRUE]
    /\ objects = EmptyDict
    /\ temp_data = EmptyDict
    /\ docname = NoDoc
    /\ pos = 0
    /\ ids = {}
    /\ warnings = <<>>
    /\ warned = {}
    /\ open_names = <<>>
    /\ failure = "no"
    /\ pre = EmptyDict
    /\ signature = NoSignature
    /\ xref = NoXref
    /\ sig = <<>>
    /\ typename = <<>>
    /\ typed = 0
    /\ field = NoField

\* The source of document d is edited.
EditDoc(d, c) ==
    /\ Idle
    /\ content[d] # c
    /\ content' = [content EXCEPT ![d] = c]
    /\ stale' = [stale EXCEPT ![d] = TRUE]
    /\ xref' = NoXref
    /\ UNCHANGED <<objects, temp_data, docname, pos, ids, warnings, warned,
                   open_names, failure, pre, signature>>
    /\ UNCHANGED textVars

\* The host starts to read document d: clear_doc(d), a fresh doctree and
\* fresh temp_data.
BeginRead(d) ==
    /\ Idle
    /\ pre' = objects
    /\ objects' = ClearDoc(objects, d)
    /\ docname' = d
    /\ pos' = 1
    /\ temp_data' = EmptyDict
    /\ ids' = {}
    /\ warnings' = <<>>
    /\ open_names' = <<>>
    /\ signature' = NoSignature
    /\ xref' = NoXref
    /\ UNCHANGED <<content, stale, warned, failure>>
    /\ UNCHANGED textVars

\* The same, for a document that changed since it was last read.
BeginReadChanged(d) == stale[d] /\ BeginRead(d)

\* The run of the directive at pos, up to its content: handle_signature,
\* then add_target_and_index when it returned a name, then before_content
\* (which only a package directive defines).  A ValueError is caught by the
\* host and the directive goes on without a name; any other exception
\* escapes.
Directive(ev, r) ==
    LET names == IF r.raised = "no" THEN <<r.fullname>> ELSE <<>>
        a == IF r.raised = "no"
             THEN AddTargetAndIndex(r.fullname, docname, ev.objtype, ids,
                                    objects, warnings)
             ELSE [ids |-> ids, objects |-> objects, warnings |-> warnings]
    IN  /\ signature' = r
        /\ IF r.raised = "KeyError"
           THEN /\ failure' = "KeyError"
                /\ UNCHANGED <<objects, temp_data, pos, ids, warnings, warned,
                               open_names>>
           ELSE /\ ids' = a.ids
                /\ objects' = a.objects
                /\ warnings' = a.warnings
                /\ warned' = IF a.warnings # warnings
                             THEN warned \cup {r.fullname} ELSE warned
                /\ IF ev.op = "open"
                   THEN /\ temp_data' = BeforeContent(temp_data, names)
                        /\ open_names' = Append(open_names, names)
                   ELSE UNCHANGED <<temp_data, open_names>>
                /\ pos' = pos + 1
                /\ UNCHANGED failure
        /\ UNCHANGED <<content, stale, docname, pre, xref>>
        /\ UNCHANGED textVars

RunDirective(ev) ==
    Directive(ev, HandleSignature(ev.sig, temp_data, ev.objtype))

\* A directive that is not a package.
RunObject ==
    /\ Reading
    /\ pos <= Len(Events(docname))
    /\ Events(docname)[pos].op = "decl"
    /\ RunDirective(Events(docname)[pos])

\* A package directive, up to the start of its content.
RunPackage ==
    /\ Reading
    /\ pos <= Len(Events(docname))
    /\ Events(docname)[pos].op = "open"
    /\ RunDirective(Events(docname)[pos])

\* The end of a package directive's content: after_content.
EndPackage ==
    /\ Reading
    /\ pos <= Len(Events(docname))
    /\ Events(docname)[pos].op = "close"
    /\ temp_data' = AfterContent(temp_data)
    /\ open_names' = SubSeq(open_names, 1, Len(open_names) - 1)
    /\ pos' = pos + 1
    /\ UNCHANGED <<content, stale, objects, docname, ids, warnings, warned,
                   failure, pre, signature, xref>>
    /\ UNCHANGED textVars

\* The document has been read to its end.
EndRead ==
    /\ Reading
    /\ pos > Len(Events(docname))
    /\ stale' = [stale EXCEPT ![docname] = FALSE]
    /\ docname' = NoDoc
    /\ pos' = 0
    /\ temp_data' = EmptyDict
    /\ ids' = {}
    /\ warnings' = <<>>
    /\ open_names' = <<>>
    /\ pre' = EmptyDict
    /\ signature' = NoSignature
    /\ UNCHANGED <<content, objects, warned, failure, xref>>
    /\ UNCHANGED textVars

\* A reference written with role typ, to target, with or without an
\* explicit title: process_link, then resolve_xref.  The host resolves
\* references once every changed document has been read.
ResolveReference(typ, has_explicit_title, target) ==
    /\ Idle
    /\ \A d \in Docs : ~stale[d]
    /\ LET given == IF has_explicit_title THEN <<"t">> ELSE target
           link  == ProcessLink(has_explicit_title, given, target)
       IN  xref' = [typ |-> typ, target |-> link[2], title |-> link[1],
                    node |-> ResolveXref(objects, typ, link[2])]
    /\ UNCHANGED <<content, stale, objects, temp_data, docname, pos, ids,
                   warnings, warned, open_names, failure, pre, signature>>
    /\ UNCHANGED textVars

Next ==
    \/ \E d \in Docs, c \in DocIds : EditDoc(d, c)
    \/ \E d \in Docs : BeginRead(d)
    \/ RunObject
    \/ RunPackage
    \/ EndPackage
    \/ EndRead
    \/ \E typ \in RoleSamples, e \in BOOLEAN, target \in TargetSamples :
          ResolveReference(typ, e, target)

Spec == Init /\ [][Next]_vars

\* The incremental build: only documents that changed are read again.
NextIncr ==
    \/ \E d \in Docs, c \in DocIds : EditDoc(d, c)
    \/ \E d \in Docs : BeginReadChanged(d)
    \/ RunObject
    \/ RunPackage
    \/ EndPackage
    \/ EndRead
    \/ \E typ \in RoleSamples, e \in BOOLEAN, target \in TargetSamples :
          ResolveReference(typ, e, target)

SpecIncr == Init /\ [][NextIncr]_vars

(***************************************************************************)
(* handle_signature on its own: a signature string is written piece by     *)
(* piece and handed to handle_signature under each package context a       *)
(* document can be in.                                                     *)
(***************************************************************************)

MaxPieces == 4

SigInit == <<"i", "n", "i", "t">>

SigPkg1 == <<"p", "k", "g", "1">>

SigPieces ==
    {SigInit, <<"a", ".", "b", ".">>, <<"$">>, <<" ">>, <<"(">>, <<")">>,
     <<",">>, <<"r", "e", "t", "u", "r", "n">>, <<"\n">>, <<"\f">>,
     <<"é", "U+0416">>,
     <<"(", "p", " ", "n", "(", "1", ",", "2", ")", ")">>}

\* env.temp_data before any package, inside package pkg1, after it, and
\* inside a package whose signature did not parse.
SigContexts ==
    {EmptyDict,
     BeforeContent(EmptyDict, <<SigPkg1>>),
     AfterContent(BeforeContent(EmptyDict, <<SigPkg1>>)),
     BeforeContent(EmptyDict, <<>>)}

SigObjTypes == {"procedure", "package"}

\* The index while the signature is handled: one earlier declaration.
SigIndex == DictSet(EmptyDict, SigPkg1, Entry("d1", "package"))

InitSig ==
    /\ content = [d \in Docs |-> 1]
    /\ stale = [d \in Docs |-> TRUE]
    /\ objects = SigIndex
    /\ temp_data \in SigContexts
    /\ docname = "d1"
    /\ pos = 1
    /\ ids = {SigPkg1}
    /\ warnings = <<>>
    /\ warned = {}
    /\ open_names = <<>>
    /\ failure = "no"
    /\ pre = EmptyDict
    /\ signature = NoSignature
    /\ xref = NoXref
    /\ sig = <<>>
    /\ typename = <<>>
    /\ typed = 0
    /\ field = NoField

\* One more piece of the signature string is written.
WriteSig(piece) ==
    /\ typed < MaxPieces
    /\ sig' = sig \o piece
    /\ typed' = typed + 1
    /\ signature' = NoSignature
    /\ UNCHANGED <<content, stale, objects, temp_data, docname, pos, ids,
                   warnings, warned, open_names, failure, pre, xref>>
    /\ UNCHANGED <<typename, field>>

\* handle_signature(sig, signode) in a directive of type objtype.
CallHandleSignature(objtype) ==
    /\ signature = NoSignature
    /\ signature' = HandleSignature(sig, temp_data, objtype)
    /\ UNCHANGED <<content, stale, objects, temp_data, docname, pos, ids,
                   warnings, warned, open_names, failure, pre, xref>>
    /\ UNCHANGED textVars

NextSig ==
    \/ \E piece \in SigPieces : WriteSig(piece)
    \/ \E objtype \in SigObjTypes : CallHandleSignature(objtype)

SpecSig == InitSig /\ [][NextSig]_vars

(***************************************************************************)
(* make_field on its own: a type annotation is written piece by piece and  *)
(* handed to make_field as the plain-text type of parameter x.             *)
(***************************************************************************)

MaxTypePieces == 5

TypePieces ==
    {<<"i", "n">>, <<"o", "u", "t">>, <<" ">>,
     <<"c", "u", "s", "t", "o", "m", "_", "t", "y", "p", "e">>}

ArgX == <<"x">>

ArgY == <<"y">>

\* The items make_field is given: one parameter, the same parameter twice,
\* a parameter without a type before one with a type.
ItemSamples ==
    {<< <<ArgX, <<TextNode(<<"d">>)>> >> >>,
     << <<ArgX, <<TextNode(<<"d">>)>> >>, <<ArgX, <<TextNode(<<"e">>)>> >> >>,
     << <<ArgY, <<TextNode(<<"d">>)>> >>, <<ArgX, <<TextNode(<<"e">>)>> >> >>}

InitField ==
    /\ content = [d \in Docs |-> 1]
    /\ stale = [d \in Docs |-> TRUE]
    /\ objects = EmptyDict
    /\ temp_data = EmptyDict
    /\ docname = NoDoc
    /\ pos = 0
    /\ ids = {}
    /\ warnings = <<>>
    /\ warned = {}
    /\ open_names = <<>>
    /\ failure = "no"
    /\ pre = EmptyDict
    /\ signature = NoSignature
    /\ xref = NoXref
    /\ sig = <<>>
    /\ typename = <<>>
    /\ typed = 0
    /\ field = NoField

\* One more piece of the type annotation is written.
WriteType(piece) ==
    /\ typed < MaxTypePieces
    /\ typename' = typename \o piece
    /\ typed' = typed + 1
    /\ field' = NoField
    /\ UNCHANGED buildVars
    /\ UNCHANGED sig

\* make_field(types, domain, items) with types = {'x': [Text(typename)]}.
CallMakeField(items) ==
    /\ field = NoField
    /\ field' = MakeField(DictSet(EmptyDict, ArgX, <<TextNode(typename)>>),
                          items)
    /\ UNCHANGED buildVars
    /\ UNCHANGED <<sig, typename, typed>>

NextField ==
    \/ \E piece \in TypePieces : WriteType(piece)
    \/ \E items \in ItemSamples : CallMakeField(items)

SpecField == InitField /\ [][NextField]_vars

(***************************************************************************)
(* Properties of handle_signature (checked under SpecSig).                 *)
(***************************************************************************)

\* The return part fills s from position p to position e: whitespace, the
\* keyword, whitespace, and an annotation without a line break.
CanReturnAt(s, p, e) ==
    \E q \in p..e :
        /\ \A t \in (p + 1)..q : s[t] \in SpaceChars
        /\ q + 6 <= e
        /\ \A t \in 1..6 : LowerChar(s[q + t]) = ReturnKeyword[t]
        /\ \E r \in (q + 6)..e :
              /\ \A t \in (q + 7)..r : s[t] \in SpaceChars
              /\ \A t \in (r + 1)..e : s[t] # LineBreak

\* The first e characters of s are a sentence of the signature grammar:
\* some prefix of word characters and dots ending in a dot (or none), a
\* name of word characters with an optional leading dollar, whitespace, and
\* then nothing, or a parenthesised argument list without a line break, or
\* a return part, or both.
SentenceTo(s, e) ==
    \E i \in 0..e :
        /\ i > 0 => s[i] = "."
        /\ \A t \in 1..i : s[t] \in WordChars \/ s[t] = "."
        /\ \E j \in (i + 1)..e :
              /\ \A t \in (i + 2)..j : s[t] \in WordChars
              /\ s[i + 1] \in WordChars \/ (s[i + 1] = "$" /\ i + 1 < j)
              /\ \E k \in j..e :
                    /\ \A t \in (j + 1)..k : s[t] \in SpaceChars
                    /\ \/ k = e
                       \/ CanReturnAt(s, k, e)
                       \/ /\ k < e
                          /\ s[k + 1] = "("
                          /\ \E c \in (k + 2)..e :
                                /\ s[c] = ")"
                                /\ \A t \in (k + 2)..(c - 1) : s[t] # LineBreak
                                /\ (c = e \/ CanReturnAt(s, c, e))

\* The string is a sentence of the signature grammar, or one followed by a
\* single line break.
InGrammar(s) ==
    \/ SentenceTo(s, Len(s))
    \/ /\ s # <<>>
       /\ s[Len(s)] = LineBreak
       /\ SentenceTo(s, Len(s) - 1)

\* handle_signature has just been called on sig.
Handled == signature # NoSignature

\* C4: for a well-formed signature, handle_signature returns the current
\* package's name, a dot and the name when in_package is true (a written
\* prefix is ignored), and the written prefix (empty when absent) and the
\* name otherwise; "init" inside pkg1 gives "pkg1.init" and "a.b.init"
\* outside any package gives "a.b.init".  (Where in_package is true and no
\* current package was ever recorded the expression is not defined, and
\* handle_signature raises KeyError: see C10.)
C4_QualifiedName ==
    (/\ Handled
     /\ InGrammar(sig)
     /\ InPackage(temp_data) => CurrentPackageKey \in DOMAIN temp_data)
    => /\ signature.raised = "no"
       /\ signature.fullname =
            IF InPackage(temp_data)
            THEN temp_data[CurrentPackageKey] \o <<".">> \o SigMatch(sig).name
            ELSE (IF SigMatch(sig).name_prefix = None
                  THEN <<>> ELSE SigMatch(sig).name_prefix)
                 \o SigMatch(sig).name
       /\ (sig = SigInit /\ InPackage(temp_data))
          => signature.fullname = SigPkg1 \o <<".">> \o SigInit
       /\ (sig = <<"a", ".", "b", ".">> \o SigInit /\ ~InPackage(temp_data))
          => signature.fullname = <<"a", ".", "b", ".">> \o SigInit

\* C4's case: a signature with a written prefix was handled inside pkg1.
C4_Witness ==
    /\ Handled
    /\ sig = <<"a", ".", "b", ".">> \o SigInit
    /\ InPackage(temp_data)
    /\ CurrentPackageKey \in DOMAIN temp_data
    /\ signature.fullname = SigPkg1 \o <<".">> \o SigInit

\* The desc_parameter children of the signature node, in order.
ParametersOf(signode) ==
    LET lists == SelectSeq(signode, LAMBDA n : n.node = "desc_parameterlist")
    IN  IF lists = <<>> THEN <<>> ELSE lists[1].params

\* The commas of s that are not inside parentheses.
TopLevelCommas(s) ==
    {i \in 1..Len(s) :
        /\ s[i] = ","
        /\ Cardinality({t \in 1..i : s[t] = "("})
             <= Cardinality({t \in 1..i : s[t] = ")"})}

RECURSIVE CutAt(_, _, _)
\* The pieces of s from position a on, cut at the positions of cuts.
CutAt(s, a, cuts) ==
    LET after == {c \in cuts : c >= a}
    IN  IF after = {}
        THEN <<Slice(s, a, Len(s))>>
        ELSE <<Slice(s, a, Min(after) - 1)>> \o CutAt(s, Min(after) + 1, cuts)

\* The argument text split on its top-level commas, each piece trimmed, the
\* empty ones dropped.
TopLevelTokens(s) ==
    LET pieces  == CutAt(s, 1, TopLevelCommas(s))
        trimmed == [i \in 1..Len(pieces) |-> Strip(pieces[i])]
    IN  SelectSeq(trimmed, LAMBDA x : x # <<>>)

\* C5: the parameter tokens of a signature with an argument list are the
\* pieces of the argument text between its top-level commas (a comma inside
\* inner parentheses does not split), trimmed, without the empty ones, in
\* order.
C5_TopLevelCommaSplit ==
    (Handled /\ signature.raised = "no" /\ Truthy(SigMatch(sig).arglist))
    => ParametersOf(signature.signode) = TopLevelTokens(SigMatch(sig).arglist)

\* C7: for a string that is not in the grammar, handle_signature raises
\* ValueError and has had no effect: nothing was appended to the signature
\* node, and the index, in_package and current_package are as they were.
C7_MalformedHasNoEffect ==
    [][(signature' # signature /\ signature' # NoSignature /\ ~InGrammar(sig))
       => /\ signature'.raised = "ValueError"
          /\ signature'.signode = <<>>
          /\ objects' = objects
          /\ temp_data' = temp_data
          /\ failure' = failure]_vars

\* C7's case: a string outside the grammar was handled inside a package.
C7_Witness ==
    /\ Handled
    /\ sig = SigInit \o <<" ">> \o <<"(">>
    /\ InPackage(temp_data)
    /\ signature.raised = "ValueError"

(***************************************************************************)
(* Properties of make_field (checked under SpecField).                     *)
(***************************************************************************)

\* The nodes of a paragraph of the field between ' (' and ')': its type.
\* (A paragraph without a type has three nodes: the argument, ' -- ' and
\* the one-node content.)
TypePart(par) == SubSeq(par, 3, Len(par) - 3)

HasType(par) == Len(par) > 3 /\ par[2] = TextNode(<<" ", "(">>)

RECURSIVE TextOf(_)
\* The texts of a sequence of nodes, one after the other.
TextOf(ns) == IF ns = <<>> THEN <<>> ELSE ns[1].text \o TextOf(Tail(ns))

\* The position of the last space of s, 0 when it has none.
LastSpace(s) == MaxOrZero({i \in 1..Len(s) : s[i] = " "})

\* The type nodes render annotation s as the claim says: the last
\* space-separated token as the only cross-reference, and before it, when
\* there is more than one token, the preceding tokens as plain text followed
\* by one space.
RendersLastTokenAsReference(tn, s) ==
    /\ tn # <<>>
    /\ tn[Len(tn)] =
         [node |-> "pending_xref",
          text |-> Slice(s, LastSpace(s) + 1, Len(s)),
          reftype |-> FieldTypeRoleName]
    /\ tn[Len(tn)].text # <<>>
    /\ \A i \in 1..(Len(tn) - 1) : tn[i].node = "Text"
    /\ TextOf(SubSeq(tn, 1, Len(tn) - 1)) = Slice(s, 1, LastSpace(s))
    /\ LastSpace(s) = 0 => Len(tn) = 1
    /\ LastSpace(s) > 0 => tn[Len(tn) - 1] = TextNode(<<" ">>)

\* C6: a plain-text type annotation with one space-separated token is
\* rendered as a cross-reference to that token; with more than one, the
\* last token is the only cross-reference and the preceding tokens are plain
\* text followed by one space; the target is never empty.  (Stated for the
\* annotations that have a token at all, a character other than the space.)
C6_LastTokenIsTheReference ==
    (field # NoField /\ \E t \in 1..Len(typename) : typename[t] # " ")
    => /\ \E i \in 1..Len(field.body) : HasType(field.body[i])
       /\ \A i \in 1..Len(field.body) :
             HasType(field.body[i])
             => RendersLastTokenAsReference(TypePart(field.body[i]), typename)

(***************************************************************************)
(* Properties of the build (checked under Spec and SpecIncr).              *)
(***************************************************************************)

RECURSIVE NamesFrom(_, _, _)
RECURSIVE NamesAfter(_, _, _, _)
\* The full names the declarations of a document yield from event i on,
\* read under temp_data = td: the directives run in source order, a
\* declaration that does not parse yields no name, and the read stops at an
\* exception that escapes.
NamesFrom(events, i, td) ==
    IF i > Len(events) THEN {}
    ELSE IF events[i].op = "close"
    THEN NamesFrom(events, i + 1, AfterContent(td))
    ELSE NamesAfter(events, i, td,
                    HandleSignature(events[i].sig, td, events[i].objtype))

NamesAfter(events, i, td, r) ==
    IF r.raised = "KeyError" THEN {}
    ELSE LET names == IF r.raised = "no" THEN <<r.fullname>> ELSE <<>>
         IN  {names[n] : n \in 1..Len(names)}
             \cup NamesFrom(events, i + 1,
                            IF events[i].op = "open"
                            THEN BeforeContent(td, names) ELSE td)

\* The full names the declarations of each content yield.
DeclaredBy == [c \in DocIds |-> NamesFrom(DocSamples[c], 1, EmptyDict)]

\* The full names document d's current content declares.
Declared(d) == DeclaredBy[content[d]]

\* The step runs the directive at pos (a declaration is processed).
DirectiveStep ==
    /\ Reading
    /\ pos <= Len(Events(docname))
    /\ Events(docname)[pos].op \in {"decl", "open"}
    /\ signature' = HandleSignature(Events(docname)[pos].sig, temp_data,
                                    Events(docname)[pos].objtype)
    /\ (pos' = pos + 1 \/ failure' # failure)

\* C1: when a declaration yields a full name the index already holds (from
\* the same document or from another), add_target_and_index does not raise,
\* the index then holds for that name the document and kind of this second
\* declaration, and exactly one duplicate warning was reported, naming the
\* document of the first.
C1_SecondDeclarationWins ==
    [][(/\ DirectiveStep
        /\ signature'.raised = "no"
        /\ signature'.fullname \in DOMAIN objects)
       => /\ failure' = "no"
          /\ signature'.fullname \in DOMAIN objects'
          /\ objects'[signature'.fullname] =
               Entry(docname, Events(docname)[pos].objtype)
          /\ warnings' =
               Append(warnings,
                      [name |-> signature'.fullname,
                       other |-> objects[signature'.fullname].docname])]_vars

\* The read of docname has run every directive of the document.
ReadDone == Reading /\ pos > Len(Events(docname))

\* C2 as stated: clear_doc(d) and the re-insertion of the declarations of
\* an unchanged document d leave the index as it was before the clear, also
\* when another document declares one of d's names.
C2_RebuildRestoresIndex ==
    (ReadDone /\ ~stale[docname]) => objects = pre

\* C2 as amended: the same, provided every name d declares was, before the
\* clear, an entry owned by d (no other document that declares the name was
\* read after d).
C2_RebuildRestoresOwnedIndex ==
    (/\ ReadDone
     /\ ~stale[docname]
     /\ \A n \in Declared(docname) :
           n \in DOMAIN pre /\ pre[n].docname = docname)
    => objects = pre

\* C2's case: an unchanged document that declares names was cleared and
\* read again while the index also held another document's entries.
C2_Witness ==
    /\ ReadDone
    /\ ~stale[docname]
    /\ Declared(docname) # {}
    /\ \A n \in Declared(docname) :
          n \in DOMAIN pre /\ pre[n].docname = docname
    /\ \E n \in DOMAIN pre : pre[n].docname # docname
    /\ objects = pre

\* A link to target: the defining document, the target as anchor.
LinksTo(node, inv, target) ==
    /\ node.resolved
    /\ node.refdoc = inv[target].docname
    /\ node.anchor = target

\* C3: resolve_xref returns a link exactly for the targets that are keys of
\* the index, whatever the role and the title, to the entry's document with
\* the target as anchor; right after clear_doc(d) it returns None for every
\* name d owned.
C3_ResolveIffIndexed ==
    /\ \A typ \in RoleNames, target \in TargetSamples \cup DOMAIN objects :
          IF target \in DOMAIN objects
          THEN LinksTo(ResolveXref(objects, typ, target), objects, target)
          ELSE ResolveXref(objects, typ, target) = NoRef
    /\ xref # NoXref
       => IF xref.target \in DOMAIN objects
          THEN LinksTo(xref.node, objects, xref.target)
          ELSE xref.node = NoRef
    /\ (Reading /\ pos = 1)
       => \A n \in DOMAIN pre, typ \in RoleNames :
             pre[n].docname = docname
             => ResolveXref(objects, typ, n) = NoRef

\* C3's case: a reference with an explicit title was resolved to a link
\* into another document than the one last read.
C3_Witness ==
    /\ xref # NoXref
    /\ xref.title # xref.target
    /\ xref.typ = "meth"
    /\ xref.node.resolved
    /\ xref.node.refdoc = "d2"
    /\ \E n \in DOMAIN objects : objects[n].docname = "d1"

\* The step is the end of a package directive's content.
EndPackageStep ==
    /\ Reading
    /\ pos <= Len(Events(docname))
    /\ Events(docname)[pos].op = "close"
    /\ pos' = pos + 1

\* C8: a package B entered inside a package A overwrites the recorded
\* current package with B's name; when B ends, in_package is false and A's
\* name is not put back (B's stays recorded); what is declared after B in
\* A's body gets the prefix written in its signature, not A's name.
C8_NestingIsOneLevel ==
    [][/\ (/\ DirectiveStep
           /\ Events(docname)[pos].op = "open"
           /\ open_names # <<>>
           /\ signature'.raised = "no")
          => /\ InPackage(temp_data')
             /\ temp_data'[CurrentPackageKey] = signature'.fullname
       /\ (EndPackageStep /\ Len(open_names) >= 2)
          => /\ ~InPackage(temp_data')
             /\ open_names[Len(open_names)] # <<>>
                => temp_data'[CurrentPackageKey] = open_names[Len(open_names)][1]
       /\ (/\ DirectiveStep
           /\ open_names # <<>>
           /\ ~InPackage(temp_data)
           /\ signature'.raised = "no")
          => signature'.fullname =
               (IF SigMatch(Events(docname)[pos].sig).name_prefix = None
                THEN <<>>
                ELSE SigMatch(Events(docname)[pos].sig).name_prefix)
               \o SigMatch(Events(docname)[pos].sig).name]_vars

\* C8's case: inside package p, after the nested package q has ended, g was
\* declared and is not qualified by p; q's name is still the recorded one.
C8_Witness ==
    /\ Reading
    /\ Len(open_names) = 1
    /\ open_names[1] = <<SigP>>
    /\ ~InPackage(temp_data)
    /\ temp_data[CurrentPackageKey] = SigP \o <<".">> \o SigQ
    /\ signature.raised = "no"
    /\ signature.fullname = SigG

\* Every changed document has been read again and none is being read.
AllRead == Idle /\ \A d \in Docs : ~stale[d]

\* C9 as stated: after the rebuilds, every name some document's current
\* content declares is a key of the index, and the owner recorded for it
\* declares it.
C9_DeclaredNamesAreIndexed ==
    AllRead
    => \A d \in Docs : \A n \in Declared(d) :
          /\ n \in DOMAIN objects
          /\ n \in Declared(objects[n].docname)

\* C9 as amended: after the rebuilds, the owner recorded for every key of
\* the index declares that name, and every declared name for which no
\* duplicate warning was ever reported is a key of the index, owned by the
\* document that declares it.
C9_IndexedNamesAreDeclared ==
    AllRead
    => /\ \A n \in DOMAIN objects : n \in Declared(objects[n].docname)
       /\ \A d \in Docs : \A n \in Declared(d) :
             n \notin warned
             => n \in DOMAIN objects /\ objects[n].docname = d

\* C9's case: after a document was changed and read again, the index holds
\* names of both documents, one of them reported as a duplicate.
C9_Witness ==
    /\ AllRead
    /\ warned # {}
    /\ \E n \in DOMAIN objects : objects[n].docname = "d1"
    /\ \E n \in DOMAIN objects : objects[n].docname = "d2" /\ n \notin warned
    /\ \E n \in Declared("d1") : n \notin DOMAIN objects

\* C10: whenever a declaration is processed while in_package is true, the
\* current package is recorded and is the name of the package whose body
\* directly encloses the declaration, also when that package's own
\* signature did not parse.
C10_CurrentPackageIsEnclosing ==
    (/\ Reading
     /\ pos <= Len(Events(docname))
     /\ Events(docname)[pos].op \in {"decl", "open"}
     /\ InPackage(temp_data))
    => /\ CurrentPackageKey \in DOMAIN temp_data
       /\ open_names # <<>>
       /\ open_names[Len(open_names)] # <<>>
       /\ temp_data[CurrentPackageKey] = open_names[Len(open_names)][1]

=============================================================================
